---------------------------- MODULE Spec2Model ----------------------------
(***************************************************************************)
(* Model of UnrealLidarSensor                                              *)
(* (src/Unreal/Plugins/AirSim/Source/UnrealSensors/UnrealLidarSensor.cpp). *)
(*                                                                         *)
(* Numbers.  The source computes in float/double; the model computes the   *)
(* same expressions over exact rationals (a value is a numerator over a    *)
(* denominator).  The delta-times and rates drawn below are exact in       *)
(* double, so the point counts are those of the source; an angle of the    *)
(* model is the real number the source's float approximates.  Conversions  *)
(* to uint32 keep their width: a uint32 is a record [hi, lo] of two 16-bit *)
(* halves.  The conversion of a negative, infinite or NaN floating value   *)
(* to uint32 is undefined in C++; it is a choice over what builds produce  *)
(* (wrap modulo 2^32 or saturation).  Rotations of vectors are computed    *)
(* on the grid of multiples of 90 degrees, where they are exact.           *)
(*                                                                         *)
(* getPointCloud is modelled by its positions: the entry (lines 76-101),   *)
(* one iteration of the nested loop (lines 124-138) and the exit           *)
(* (lines 140-142).                                                        *)
(***************************************************************************)
EXTENDS Integers, Sequences, FiniteSets

VARIABLES
    params,                         \* LidarSimpleParams of the sensor
    ned_transform_,                 \* "null" or "set"
    laser_angles_,                  \* sequence of vertical angles (rationals)
    current_horizontal_angle_,      \* degrees
    pc,                             \* "constructed", "scanning", "returned"
    delta_time,                     \* argument of the current/last call
    point_cloud,                    \* number of floats in the caller's vector
    total_points_to_scan,           \* after the cap
    points_to_scan_with_one_laser,  \* uint32
    angle_distance_of_tick,         \* degrees
    laser,                          \* outer loop counter
    i,                              \* inner loop counter
    logged,                         \* LogMessageString called in this call
    raycasts,                       \* GetObstacle calls in this call
    angle_at_call,                  \* current_horizontal_angle_ at entry
    last_ray,                       \* arguments of the last shootLaser call
    ray                             \* result of a single shootLaser call

vars == <<params, ned_transform_, laser_angles_, current_horizontal_angle_,
          pc, delta_time, point_cloud, total_points_to_scan,
          points_to_scan_with_one_laser, angle_distance_of_tick, laser, i,
          logged, raycasts, angle_at_call, last_ray, ray>>

---------------------------------------------------------------------------
(* Bounds of the model *)

MaxChannels == 3

MaxCoord == 1

---------------------------------------------------------------------------
(* Program constants *)

MAX_POINTS_IN_SCAN == 100000

FullTurn == 360

Half16 == 65536

---------------------------------------------------------------------------
(* Rationals and uint32 *)

Rat(n, d) == [num |-> n, den |-> d]

RatEq(a, b) == a.num * b.den = b.num * a.den

\* FMath::RoundHalfFromZero of num/den (den > 0)
RoundHalfFromZero(num, den) ==
    IF num >= 0 THEN (2 * num + den) \div (2 * den)
    ELSE -((2 * (-num) + den) \div (2 * den))

\* std::fmod(x, m): the remainder has the sign of x
FMod(x, m) == IF x >= 0 THEN x % m ELSE -((-x) % m)

U32(h, l) == [hi |-> h, lo |-> l]

U32Zero == U32(0, 0)

U32Max == U32(Half16 - 1, Half16 - 1)

U32IntMin == U32(Half16 \div 2, 0)

\* a non-negative integral value below 2^31 converted to uint32
ToU32(n) == U32(n \div Half16, n % Half16)

\* a negative integral value reduced modulo 2^32
WrapU32(n) == U32(Half16 - 1 - ((-n - 1) \div Half16),
                  Half16 - 1 - ((-n - 1) % Half16))

\* uint32 u > c, for an integer 0 <= c < 2^31
U32Gt(u, c) == \/ u.hi > c \div Half16
               \/ u.hi = c \div Half16 /\ u.lo > c % Half16

\* integer n < uint32 u, for 0 <= n < 2^31
U32Above(n, u) == U32Gt(u, n)

\* the value of a uint32 below 2^31
U32ToInt(u) == u.hi * Half16 + u.lo

\* floating -> uint32: defined for a value in range, otherwise undefined
\* behaviour, whose outcomes are the wrapped value (x86-64 cvttsd2si and a
\* truncation to 32 bits) and the saturated value 0 (ARM fcvtzu)
CastToU32(n) == IF n >= 0 THEN {ToU32(n)} ELSE {WrapU32(n), U32Zero}

\* inf or NaN -> uint32: undefined behaviour; builds give 0, 0x80000000 or
\* 0xFFFFFFFF
CastNonFiniteToU32 == {U32Zero, U32IntMin, U32Max}

---------------------------------------------------------------------------
(* Inputs *)

FovBounds == {<<15, -15>>, <<10, -20>>, <<0, 0>>}

LowRateSettings ==
    [number_of_channels : 0 .. MaxChannels,
     points_per_second : {0, 1},
     horizontal_rotation_frequency : {1},
     vertical_FOV_upper : {15, 10, 0},
     vertical_FOV_lower : {-15, -20, 0},
     range : {600}]

Settings ==
    {s \in LowRateSettings :
        <<s.vertical_FOV_upper, s.vertical_FOV_lower>> \in FovBounds}
    \cup
    {[number_of_channels |-> 4, points_per_second |-> 400,
      horizontal_rotation_frequency |-> 2,
      vertical_FOV_upper |-> 15, vertical_FOV_lower |-> -15, range |-> 600],
     [number_of_channels |-> 6, points_per_second |-> 400000,
      horizontal_rotation_frequency |-> 4,
      vertical_FOV_upper |-> 15, vertical_FOV_lower |-> -15, range |-> 600]}

\* delta-times in seconds: -1/4, 0, 1/4, 1/2, 1
DeltaTimes == {Rat(-1, 4), Rat(0, 1), Rat(1, 4), Rat(1, 2), Rat(1, 1)}

NoRay == [laser |-> -1, i |-> -1, angle |-> Rat(0, 1), is_hit |-> FALSE]

NoShot == [done |-> FALSE]

---------------------------------------------------------------------------
(* createLasers, lines 44-70 *)

\* (variant) the angle divided by the number of lasers
DeltaAngleByCount(p) ==
    Rat(p.vertical_FOV_upper - p.vertical_FOV_lower, p.number_of_channels)

\* delta_angle, lines 59-61
DeltaAngle(p) ==
    Rat(p.vertical_FOV_upper - p.vertical_FOV_lower, p.number_of_channels - 1)

\* vertical_angle of laser k (0-based), line 67
VerticalAngle(p, k) ==
    LET d == DeltaAngle(p)
    IN  Rat(p.vertical_FOV_upper * d.den - k * d.num, d.den)

createLasers(p) ==
    IF p.number_of_channels <= 0 THEN << >>
    ELSE IF p.number_of_channels = 1 THEN << Rat(0, 1) >>
    ELSE [k \in 1 .. p.number_of_channels |-> VerticalAngle(p, k - 1)]

---------------------------------------------------------------------------
(* Vectors and rotators on the 90-degree grid, where rotation is exact *)

Vec(x, y, z) == <<x, y, z>>

ZeroVector == Vec(0, 0, 0)

VAdd(a, b) == Vec(a[1] + b[1], a[2] + b[2], a[3] + b[3])

VSub(a, b) == Vec(a[1] - b[1], a[2] - b[2], a[3] - b[3])

VScale(a, k) == Vec(a[1] * k, a[2] * k, a[3] * k)

VDot(a, b) == a[1] * b[1] + a[2] * b[2] + a[3] * b[3]

SizeSquared(a) == VDot(a, a)

\* cosine and sine of a multiple of 90 degrees
Cos90(a) == CASE a % 360 = 0 -> 1 [] a % 360 = 180 -> -1 [] OTHER -> 0

Sin90(a) == CASE a % 360 = 90 -> 1 [] a % 360 = 270 -> -1 [] OTHER -> 0

FRotator(p, y, r) == [pitch |-> p, yaw |-> y, roll |-> r]

\* the rows of FRotationMatrix(r): the images of the X, Y and Z axes
AxisX(r) == Vec(Cos90(r.pitch) * Cos90(r.yaw),
                Cos90(r.pitch) * Sin90(r.yaw),
                Sin90(r.pitch))

AxisY(r) == Vec(Sin90(r.roll) * Sin90(r.pitch) * Cos90(r.yaw)
                    - Cos90(r.roll) * Sin90(r.yaw),
                Sin90(r.roll) * Sin90(r.pitch) * Sin90(r.yaw)
                    + Cos90(r.roll) * Cos90(r.yaw),
                -(Sin90(r.roll) * Cos90(r.pitch)))

AxisZ(r) == Vec(-(Cos90(r.roll) * Sin90(r.pitch) * Cos90(r.yaw)
                    + Sin90(r.roll) * Sin90(r.yaw)),
                Cos90(r.yaw) * Sin90(r.roll)
                    - Cos90(r.roll) * Sin90(r.pitch) * Sin90(r.yaw),
                Cos90(r.roll) * Cos90(r.pitch))

\* FRotator::RotateVector
RotateVector(r, v) ==
    VAdd(VAdd(VScale(AxisX(r), v[1]), VScale(AxisY(r), v[2])),
         VScale(AxisZ(r), v[3]))

\* FRotator::UnrotateVector: the transposed matrix
UnrotateVector(r, v) == Vec(VDot(v, AxisX(r)), VDot(v, AxisY(r)), VDot(v, AxisZ(r)))

\* NedTransform: metres, z down  <->  Unreal units, z up
NedScale == 100

fromLocalNed(v) == Vec(v[1] * NedScale, v[2] * NedScale, -(v[3] * NedScale))

toLocalNed(w) == Vec(w[1] \div NedScale, w[2] \div NedScale, -(w[3] \div NedScale))

\* the value of a rational that is an integer
Whole(a) == a.num \div a.den

---------------------------------------------------------------------------
(* shootLaser, lines 146-278 *)

\* lines 104-109 of getPointCloud: the ray origin handed to shootLaser
RayStart(vehicle_position, lidar_position, vehicle_orientation) ==
    VAdd(vehicle_position, RotateVector(vehicle_orientation, lidar_position))

\* lines 160-167: the end of the ray, direct composition
DirectEndVec(rayRotator, poseRotator, actorRotator, range, startVec) ==
    VAdd(VScale(RotateVector(actorRotator,
                    RotateVector(poseRotator,
                        RotateVector(rayRotator, Vec(1, 0, 0)))), range),
         startVec)

\* lines 174-196: the end of the ray, quaternion composition; this is the
\* `end` declared at line 196, local to the else-branch
QuaternionEnd(rayRotator, lidar_orientation, vehicle_orientation, range, start) ==
    VAdd(VScale(RotateVector(vehicle_orientation,
                    RotateVector(lidar_orientation,
                        RotateVector(rayRotator, Vec(1, 0, 0)))), range),
         start)

\* The rotators a FRotator declared without an initializer may hold
\* (lines 155-156, read at 270-271 when ned_transform_ is set)
Rotators == {FRotator(0, 0, 0), FRotator(90, 0, 90)}

\* lines 149-208: the segment handed to GetObstacle, and the rotators and
\* vectors in scope after line 208
RaySegment(ned, vertical_angle, horizontalAngle, lidar_orientation, vehicle_orientation, actor_rotation, start, range) ==
    LET rayRotator == FRotator(vertical_angle, horizontalAngle, 0)
    IN  IF ned = "null"
        THEN LET endVec == DirectEndVec(rayRotator, lidar_orientation,
                                        actor_rotation, range, start)
             IN  {[startVec |-> start, endVec |-> endVec, end |-> endVec,
                   poseRotator |-> lidar_orientation,
                   actorRotator |-> actor_rotation]}
        ELSE \* line 196 declares a second `end`; the one of line 151, read
             \* at line 205, is still Zero
             LET inner_end == QuaternionEnd(rayRotator, lidar_orientation,
                                            vehicle_orientation, range, start)
                 end == ZeroVector
             IN  {[startVec |-> fromLocalNed(start),
                   endVec |-> fromLocalNed(end), end |-> end,
                   poseRotator |-> pr, actorRotator |-> ar] :
                      pr \in Rotators, ar \in Rotators}

\* (variant) the `return false` that line 276 comments out
shootLaserReturnHitOnly(is_hit) == is_hit

\* lines 219-277: the value shootLaser returns
shootLaserReturn(is_hit) == IF is_hit THEN TRUE ELSE TRUE

\* lines 219-277: the point shootLaser writes
shootLaserPoint(ned, seg, is_hit, ImpactPoint) ==
    IF is_hit
    THEN IF ned # "null"
         THEN toLocalNed(ImpactPoint)
         ELSE UnrotateVector(seg.poseRotator,
                 UnrotateVector(seg.actorRotator,
                     VSub(ImpactPoint, seg.startVec)))
    ELSE UnrotateVector(seg.poseRotator,
            UnrotateVector(seg.actorRotator,
                VSub(seg.endVec, seg.startVec)))

---------------------------------------------------------------------------
(* getPointCloud, lines 73-143 *)

\* (variant) the caller's vector is left as it was
KeptCloud(cloud) == cloud

\* line 76
ClearedCloud(cloud) == 0

\* line 84: the candidate values of total_points_to_scan before the cap
RawTotalPoints(p, dt) ==
    CastToU32(RoundHalfFromZero(p.points_per_second * dt.num, dt.den))

\* line 85
ExceedsCap(t) == U32Gt(t, MAX_POINTS_IN_SCAN)

\* lines 85-89
CappedTotal(t) == IF ExceedsCap(t) THEN MAX_POINTS_IN_SCAN ELSE U32ToInt(t)

\* line 92: the candidate values of points_to_scan_with_one_laser
PointsWithOneLaser(total, n) ==
    IF n = 0 THEN CastNonFiniteToU32
    ELSE CastToU32(RoundHalfFromZero(total, n))

\* line 100
AngleDistanceOfTick(p, dt) ==
    (p.horizontal_rotation_frequency * FullTurn * dt.num) \div dt.den

\* (variant) the angle reduced to one turn for every ray
RayAngleReduced(cur, tick, ppl, k) ==
    Rat(FMod(cur * ppl + tick * k, FullTurn * ppl), ppl)

\* line 129, with angle_distance_of_laser_measure of line 101
RayAngle(cur, tick, ppl, k) == Rat(cur * ppl + tick * k, ppl)

\* line 140
AdvancedAngle(cur, tick) == FMod(cur + tick, FullTurn)

GetPointCloudBegin ==
    /\ pc # "scanning"
    /\ \E dt \in DeltaTimes :
       \E t \in RawTotalPoints(params, dt) :
       \E ppl \in PointsWithOneLaser(CappedTotal(t), params.number_of_channels) :
          /\ delta_time' = dt
          /\ point_cloud' = ClearedCloud(point_cloud)
          /\ logged' = ExceedsCap(t)
          /\ total_points_to_scan' = CappedTotal(t)
          /\ points_to_scan_with_one_laser' = ppl
          /\ raycasts' = 0
          /\ angle_at_call' = current_horizontal_angle_
          /\ last_ray' = NoRay
          /\ IF ppl = U32Zero
             THEN /\ pc' = "returned"
                  /\ UNCHANGED <<angle_distance_of_tick, laser, i>>
             ELSE /\ pc' = "scanning"
                  /\ angle_distance_of_tick' = AngleDistanceOfTick(params, dt)
                  /\ laser' = 0
                  /\ i' = 0
    /\ UNCHANGED <<params, ned_transform_, laser_angles_,
                   current_horizontal_angle_, ray>>

ShootStep ==
    /\ pc = "scanning"
    /\ laser < params.number_of_channels
    /\ U32Above(i, points_to_scan_with_one_laser)
    /\ \E is_hit \in BOOLEAN :
          /\ last_ray' = [laser |-> laser, i |-> i,
                          angle |-> RayAngle(current_horizontal_angle_,
                                             angle_distance_of_tick,
                                             U32ToInt(points_to_scan_with_one_laser), i),
                          is_hit |-> is_hit]
          /\ raycasts' = raycasts + 1
          /\ point_cloud' = IF shootLaserReturn(is_hit)
                            THEN point_cloud + 3 ELSE point_cloud
    /\ IF U32Above(i + 1, points_to_scan_with_one_laser)
       THEN i' = i + 1 /\ laser' = laser
       ELSE i' = 0 /\ laser' = laser + 1
    /\ UNCHANGED <<params, ned_transform_, laser_angles_,
                   current_horizontal_angle_, pc, delta_time,
                   total_points_to_scan, points_to_scan_with_one_laser,
                   angle_distance_of_tick, logged, angle_at_call, ray>>

GetPointCloudEnd ==
    /\ pc = "scanning"
    /\ laser >= params.number_of_channels
    /\ current_horizontal_angle_' =
           AdvancedAngle(current_horizontal_angle_, angle_distance_of_tick)
    /\ pc' = "returned"
    /\ UNCHANGED <<params, ned_transform_, laser_angles_, delta_time,
                   point_cloud, total_points_to_scan,
                   points_to_scan_with_one_laser, angle_distance_of_tick,
                   laser, i, logged, raycasts, angle_at_call, last_ray, ray>>

---------------------------------------------------------------------------
(* The sensor after its constructor, lines 12-41.  The sweep angle member *)
(* is initialised to 0 in the class declaration.                          *)

Constructed(s, ned) ==
    /\ params = s
    /\ ned_transform_ = ned
    /\ laser_angles_ = createLasers(s)
    /\ current_horizontal_angle_ = 0
    /\ pc = "constructed"
    /\ delta_time = Rat(0, 1)
    /\ point_cloud = 0
    /\ total_points_to_scan = 0
    /\ points_to_scan_with_one_laser = U32Zero
    /\ angle_distance_of_tick = 0
    /\ laser = 0
    /\ i = 0
    /\ logged = FALSE
    /\ raycasts = 0
    /\ angle_at_call = 0
    /\ last_ray = NoRay
    /\ ray = NoShot

Init == \E s \in Settings : Constructed(s, "null")

Next == GetPointCloudBegin \/ ShootStep \/ GetPointCloudEnd

Spec == Init /\ [][Next]_vars

---------------------------------------------------------------------------
(* One call of shootLaser on a constructed sensor *)

RaySettings ==
    {[number_of_channels |-> n, points_per_second |-> 400,
      horizontal_rotation_frequency |-> 1,
      vertical_FOV_upper |-> 90, vertical_FOV_lower |-> -90, range |-> r] :
        n \in {1, 3}, r \in {100, 600}}

Coords == (-MaxCoord) .. MaxCoord

Positions == {Vec(x, y, 0) : x \in Coords, y \in Coords}

Orientations == {FRotator(0, 0, 0), FRotator(0, 90, 0), FRotator(90, 0, 0)}

HorizontalAngles == {0, 90, 450}

ImpactPoints == {Vec(100, 0, 0), Vec(0, -200, 300)}

ShootLaserCall ==
    /\ pc = "constructed"
    /\ ~ray.done
    /\ \E vehicle_position \in Positions, lidar_position \in {ZeroVector, Vec(1, 0, 0)},
          vehicle_orientation \in {FRotator(0, 0, 0), FRotator(0, 90, 0)},
          lidar_orientation \in Orientations,
          actor_rotation \in {FRotator(0, 0, 0), FRotator(0, 270, 0)},
          lsr \in 0 .. (params.number_of_channels - 1),
          horizontalAngle \in HorizontalAngles,
          is_hit \in BOOLEAN, ImpactPoint \in ImpactPoints :
       LET start == RayStart(vehicle_position, lidar_position, vehicle_orientation)
           vertical_angle == Whole(laser_angles_[lsr + 1])
       IN  \E seg \in RaySegment(ned_transform_, vertical_angle, horizontalAngle,
                                 lidar_orientation, vehicle_orientation,
                                 actor_rotation, start, params.range) :
              \* range_end: where the ray of this pipeline ends at full range
              ray' = [done |-> TRUE,
                      start |-> start,
                      range_end |->
                          LET rr == FRotator(vertical_angle, horizontalAngle, 0)
                          IN  IF ned_transform_ = "null"
                              THEN DirectEndVec(rr, lidar_orientation,
                                                actor_rotation, params.range, start)
                              ELSE fromLocalNed(
                                      QuaternionEnd(rr, lidar_orientation,
                                                    vehicle_orientation,
                                                    params.range, start)),
                      is_hit |-> is_hit,
                      startVec |-> seg.startVec,
                      endVec |-> seg.endVec,
                      ret |-> shootLaserReturn(is_hit),
                      point |-> shootLaserPoint(ned_transform_, seg, is_hit,
                                                ImpactPoint)]
    /\ UNCHANGED <<params, ned_transform_, laser_angles_,
                   current_horizontal_angle_, pc, delta_time, point_cloud,
                   total_points_to_scan, points_to_scan_with_one_laser,
                   angle_distance_of_tick, laser, i, logged, raycasts,
                   angle_at_call, last_ray>>

InitRay == \E s \in RaySettings, ned \in {"null", "set"} : Constructed(s, ned)

NextRay == ShootLaserCall

SpecRay == InitRay /\ [][NextRay]_vars

---------------------------------------------------------------------------
(* Properties *)

N == params.number_of_channels

Called == pc # "constructed"

\* round(pointsPerSecond x deltaTime), as a signed integer
RoundedProduct ==
    RoundHalfFromZero(params.points_per_second * delta_time.num, delta_time.den)

Min(a, b) == IF a <= b THEN a ELSE b

\* round(min(round(pointsPerSecond x deltaTime), 100000) / channelCount)
PointsPerLaser == RoundHalfFromZero(Min(RoundedProduct, MAX_POINTS_IN_SCAN), N)

\* C1: a call with a negative delta-time returns an empty cloud and makes no
\* raycast.
C1_NegativeDeltaTimeYieldsNothing ==
    (Called /\ delta_time.num < 0) => (point_cloud = 0 /\ raycasts = 0)

\* C2: a call with deltaTime = 0 or channelCount = 0 leaves the cloud empty
\* and makes no raycast, in any tick of a sequence.
C2_ZeroDeltaOrNoChannels ==
    (Called /\ (delta_time.num = 0 \/ N = 0)) =>
        (point_cloud = 0 /\ raycasts = 0)

\* a zero-delta call has returned on a sensor that generated points before
C2_Witness ==
    /\ pc = "returned"
    /\ delta_time.num = 0
    /\ N >= 1
    /\ current_horizontal_angle_ # 0
    /\ point_cloud = 0

\* C3: after every call, empty or not, the sweep angle is
\* (angle before + horizontalRotationFrequency x 360 x deltaTime) mod 360.
C3_AdvancesEveryCall ==
    pc = "returned" =>
        current_horizontal_angle_ * delta_time.den =
            ((angle_at_call * delta_time.den
              + params.horizontal_rotation_frequency * FullTurn * delta_time.num)
             % (FullTurn * delta_time.den))

\* C4: the sweep angle lies in [0, 360) in every reachable state.
C4_AngleInRange ==
    current_horizontal_angle_ >= 0 /\ current_horizontal_angle_ < FullTurn

\* C5: when pointsPerLaser is positive the returned cloud holds exactly
\* channelCount x pointsPerLaser points of three coordinates each, whatever
\* the raycasts report.
C5_ExactCount ==
    (pc = "returned" /\ N >= 1 /\ PointsPerLaser > 0) =>
        point_cloud = 3 * N * PointsPerLaser

\* the 4-channel, 400 points/s, 1 s tick returned 400 points, the last a miss
C5_Witness ==
    /\ pc = "returned"
    /\ N = 4
    /\ params.points_per_second = 400
    /\ delta_time = Rat(1, 1)
    /\ PointsPerLaser = 100
    /\ point_cloud = 1200
    /\ last_ray.laser = 3
    /\ ~last_ray.is_hit

\* C6: the budget after the cap never exceeds 100,000 and the warning is
\* logged exactly when round(pointsPerSecond x deltaTime) exceeds 100,000.
C6_CapAndWarning ==
    Called => /\ total_points_to_scan <= MAX_POINTS_IN_SCAN
              /\ logged <=> (RoundedProduct > MAX_POINTS_IN_SCAN)

\* C7: on a miss, in either pipeline, shootLaser returns a point at exactly
\* the configured range from the sensor, the far end of a ray that runs from
\* the origin to origin + range x direction.
C7_MissAtRange ==
    (ray.done /\ ~ray.is_hit) =>
        /\ ray.ret
        /\ ray.endVec = ray.range_end
        /\ SizeSquared(ray.point) = params.range * params.range

\* C8: the laser table has channelCount entries: none for 0, {0} for 1, and
\* for N >= 2 angle[k] = U - k (U - L)/(N - 1), from U down to L in equal
\* steps; no getPointCloud call changes it.
C8_LaserTable ==
    LET U == params.vertical_FOV_upper
        L == params.vertical_FOV_lower
    IN  /\ Len(laser_angles_) = N
        /\ N = 1 => laser_angles_ = << Rat(0, 1) >>
        /\ N >= 2 =>
              /\ RatEq(laser_angles_[1], Rat(U, 1))
              /\ RatEq(laser_angles_[N], Rat(L, 1))
              /\ \A k \in 0 .. (N - 1) :
                    RatEq(laser_angles_[k + 1],
                          Rat(U * (N - 1) - k * (U - L), N - 1))
              /\ \A k \in 1 .. (N - 1) :
                    LET a == laser_angles_[k]
                        b == laser_angles_[k + 1]
                    IN  RatEq(Rat(b.num * a.den - a.num * b.den, a.den * b.den),
                              Rat(L - U, N - 1))

\* a 4-channel sensor, 15 to -15 degrees, after a call that generated points
C8_Witness ==
    /\ pc = "returned"
    /\ point_cloud > 0
    /\ N = 4
    /\ RatEq(laser_angles_[2], Rat(5, 1))
    /\ RatEq(laser_angles_[3], Rat(-5, 1))

\* C9: while rays are generated the sweep angle stays what it was at the
\* start of the tick, and sample i of every channel is shot at
\* (angle at tick start) + i x (angularStepPerTick / pointsPerLaser), not
\* reduced modulo 360.
C9_RayAngles ==
    /\ pc = "scanning" => current_horizontal_angle_ = angle_at_call
    /\ last_ray # NoRay =>
          LET ppl == U32ToInt(points_to_scan_with_one_laser)
          IN  /\ last_ray.angle.den = ppl
              /\ last_ray.angle.num * delta_time.den =
                    angle_at_call * ppl * delta_time.den
                    + last_ray.i * params.horizontal_rotation_frequency
                          * FullTurn * delta_time.num

\* a later sample of a later channel, shot past 360 degrees in a tick that
\* started at a non-zero angle
C9_Witness ==
    /\ pc = "scanning"
    /\ angle_at_call # 0
    /\ last_ray.laser >= 1
    /\ last_ray.i >= 1
    /\ last_ray.angle.num >= FullTurn * last_ray.angle.den

\* C10: the raycasts of one tick, channelCount x pointsPerLaser of them,
\* never exceed the ceiling of 100,000.
C10_RaycastsWithinCeiling ==
    /\ raycasts <= MAX_POINTS_IN_SCAN
    /\ (pc = "scanning" /\ N >= 1) =>
          N * U32ToInt(points_to_scan_with_one_laser) <= MAX_POINTS_IN_SCAN

===========================================================================
